---- MODULE Spec2Model ----
(***************************************************************************)
(* Configuration resolution of TowerModule                                 *)
(* (awx_collection/plugins/module_utils/tower_module.py).                  *)
(*                                                                         *)
(* The constructor runs once, in one thread: load_config_files() walks the *)
(* implicit candidates and then the explicit tower_config_file, the        *)
(* directly supplied parameters are applied, and the host is validated.    *)
(* pc is the constructor's position.  The file system, the working         *)
(* directory and the module parameters are the inputs; they are chosen in  *)
(* Init and never change.                                                  *)
(*                                                                         *)
(* Python values are records [ty, v]: ty is the Python type, v its repr.   *)
(* Paths are sequences of components below "/", so <<>> is "/" itself.     *)
(***************************************************************************)
EXTENDS Naturals, Sequences, FiniteSets

VARIABLES cwd, fs, params, pc, config_files, idx, self, events, failure

vars == <<cwd, fs, params, pc, config_files, idx, self, events, failure>>

\* ------------------------------------------------------------ bounds

\* Deepest working directory considered (/a/b/c has depth 3).
MaxDepth == 3

\* Most implicit files that exist at once in the discovery inputs.
MaxFiles == 2

\* ------------------------------------------------------------ Python values

None == [ty |-> "NoneType", v |-> "None"]

Str(s) == [ty |-> "str", v |-> s]

Bool(b) == [ty |-> "bool", v |-> IF b THEN "True" ELSE "False"]

Int(s) == [ty |-> "int", v |-> s]

\* Python truthiness: what `if x:` and bool(x) test.
Truthy(x) ==
    CASE x.ty = "NoneType" -> FALSE
      [] x.ty = "bool" -> x.v = "True"
      [] x.ty = "int" -> x.v # "0"
      [] OTHER -> x.v # ""

\* str.lower() on the tokens that occur in the modelled files.
Lower(s) ==
    CASE s = "YES" -> "yes"
      [] s = "No" -> "no"
      [] s = "True" -> "true"
      [] OTHER -> s

\* distutils.util.strtobool: the int 1 or 0, or ValueError.
strtobool(val) ==
    LET w == Lower(val) IN
    IF w \in {"y", "yes", "t", "true", "on", "1"}
    THEN [ok |-> TRUE, val |-> Int("1")]
    ELSE IF w \in {"n", "no", "f", "false", "off", "0"}
    THEN [ok |-> TRUE, val |-> Int("0")]
    ELSE [ok |-> FALSE, val |-> None]

\* ------------------------------------------------------------ class attributes

honorred_settings == <<"host", "username", "password", "verify_ssl", "oauth_token">>

Settings == {honorred_settings[i] : i \in 1..Len(honorred_settings)}

\* The class-level defaults of TowerModule.
Defaults ==
    [host |-> Str("127.0.0.1"), username |-> None, password |-> None,
     verify_ssl |-> Bool(TRUE), oauth_token |-> None]

config_name == "tower_cli.cfg"

\* ".{0}".format(self.config_name)
dot_config_name == "." \o config_name

\* ------------------------------------------------------------ paths

\* os.path.split: (head, tail); the tail of "/" is empty.
split(p) ==
    IF p = <<>> THEN <<p, "">> ELSE <<SubSeq(p, 1, Len(p) - 1), p[Len(p)]>>

\* os.path.join(directory, name)
join(d, name) == Append(d, name)

\* list.insert(i, x) with Python's 0-based index i
insert(list, i, x) ==
    SubSeq(list, 1, i) \o <<x>> \o SubSeq(list, i + 1, Len(list))

\* expanduser("~")
Home == <<"home", "user">>

SystemConfig == <<"etc", "tower", config_name>>

RECURSIVE WalkUp(_, _)
\* while split(local_dir)[1]: local_dir = split(local_dir)[0]; insert(2, ...)
WalkUp(local_dir, list) ==
    IF split(local_dir)[2] # ""
    THEN LET parent == split(local_dir)[1] IN
         WalkUp(parent, insert(list, 2, join(parent, dot_config_name)))
    ELSE list

\* The candidate list load_config_files builds for working directory d.
BuildConfigFiles(d) ==
    WalkUp(d, <<SystemConfig, join(Home, dot_config_name), join(d, config_name)>>)

\* ------------------------------------------------------------ files

Sect(n) == [k |-> "sect", key |-> n, val |-> ""]

KV(key, val) == [k |-> "kv", key |-> key, val |-> val]

Junk == [k |-> "junk", key |-> "", val |-> ""]

Blank == [k |-> "blank", key |-> "", val |-> ""]

Missing == [kind |-> "missing", readable |-> FALSE, fmt |-> "", map |-> <<>>, lines |-> <<>>]

Directory == [kind |-> "dir", readable |-> TRUE, fmt |-> "", map |-> <<>>, lines |-> <<>>]

\* Exists, but is neither a regular file nor a directory (a FIFO, a socket).
Special == [kind |-> "special", readable |-> TRUE, fmt |-> "", map |-> <<>>, lines |-> <<>>]

Unreadable == [kind |-> "file", readable |-> FALSE, fmt |-> "", map |-> <<>>, lines |-> <<>>]

\* A readable text that YAML loads as the mapping m.
Yaml(m) == [kind |-> "file", readable |-> TRUE, fmt |-> "yaml", map |-> m, lines |-> <<>>]

\* A readable text of INI lines, which YAML loads as a string or rejects.
Ini(ls) == [kind |-> "file", readable |-> TRUE, fmt |-> "ini", map |-> <<>>, lines |-> ls]

exists(p) == fs[p].kind # "missing"

isdir(p) == fs[p].kind = "dir"

isfile(p) == fs[p].kind = "file"

access(p) == fs[p].readable

\* ------------------------------------------------------------ parsing

Put(f, k, v) == [x \in DOMAIN f \cup {k} |-> IF x = k THEN v ELSE f[x]]

\* '[general]' not in config_string
HasGeneralMarker(ls) == \E i \in 1..Len(ls) : ls[i] = Sect("general")

\* '[general]{0}'.format(config_string): the marker is glued to the first
\* line, and the section pattern \[(?P<header>.+)\] then reads the glued
\* line as a header, up to the last "]" in it.
PrependGeneral(ls) ==
    IF ls = <<>> THEN <<Sect("general")>>
    ELSE LET first == IF ls[1].k = "sect"
                      THEN Sect("general][" \o ls[1].key)
                      ELSE Sect("general")
         IN <<first>> \o Tail(ls)

RECURSIVE IniRead(_, _, _, _, _)
\* ConfigParser.read_file (strict): sections maps a section name to its
\* options; a line that is neither header nor option is reported at the end.
IniRead(ls, i, cursect, sections, bad) ==
    IF i > Len(ls)
    THEN [err |-> IF bad THEN "ParsingError" ELSE "", sections |-> sections]
    ELSE LET l == ls[i] IN
         CASE l.k = "blank" -> IniRead(ls, i + 1, cursect, sections, bad)
           [] l.k = "sect" ->
                IF l.key \in DOMAIN sections
                THEN [err |-> "DuplicateSectionError", sections |-> sections]
                ELSE IniRead(ls, i + 1, l.key, Put(sections, l.key, <<>>), bad)
           [] cursect = "" ->
                [err |-> "MissingSectionHeaderError", sections |-> sections]
           [] l.k = "kv" ->
                IF l.key \in DOMAIN sections[cursect]
                THEN [err |-> "DuplicateOptionError", sections |-> sections]
                ELSE IniRead(ls, i + 1, cursect,
                             Put(sections, cursect, Put(sections[cursect], l.key, l.val)),
                             bad)
           [] OTHER -> IniRead(ls, i + 1, cursect, sections, TRUE)

\* Option values on which ConfigParser.get's interpolation raises.
BadInterpolation == {"p%ss"}

\* The legacy branch of load_config: the mapping read from the INI text, or
\* the exception that ends it.
IniLoad(ls) ==
    LET text == IF HasGeneralMarker(ls) THEN ls ELSE PrependGeneral(ls)
        r == IniRead(text, 1, "", <<>>, FALSE)
    IN  IF r.err # "" THEN [err |-> r.err, data |-> <<>>]
        ELSE IF "general" \notin DOMAIN r.sections
        THEN [err |-> "NoSectionError", data |-> <<>>]
        ELSE LET g == r.sections["general"]
                 found == DOMAIN g \cap Settings
             IN  IF \E s \in found : g[s] \in BadInterpolation
                 THEN [err |-> "InterpolationSyntaxError", data |-> <<>>]
                 ELSE [err |-> "", data |-> [s \in found |-> Str(g[s])]]

\* yaml.load, then the legacy fallback when the result is not a dict.
ParseConfig(f) ==
    IF f.fmt = "yaml" THEN [err |-> "", data |-> f.map] ELSE IniLoad(f.lines)

RECURSIVE SetAttrsAll(_, _, _)
\* SetAttrs with the test `honorred_setting in config_data` left out: a
\* setting the file does not hold is assigned None.
SetAttrsAll(slf, data, i) ==
    IF i > Len(honorred_settings) THEN [self |-> slf, exc |-> "", msg |-> ""]
    ELSE LET s == honorred_settings[i] IN
         IF s \notin DOMAIN data
         THEN SetAttrsAll([slf EXCEPT ![s] = None], data, i + 1)
         ELSE IF s # "verify_ssl"
         THEN SetAttrsAll([slf EXCEPT ![s] = data[s]], data, i + 1)
         ELSE IF data[s].ty = "str"
         THEN LET b == strtobool(data[s].v) IN
              IF b.ok THEN SetAttrsAll([slf EXCEPT ![s] = b.val], data, i + 1)
              ELSE [self |-> slf, exc |-> "ValueError", msg |-> "invalid truth value"]
         ELSE SetAttrsAll([slf EXCEPT ![s] = Bool(Truthy(data[s]))], data, i + 1)

RECURSIVE SetAttrs(_, _, _)
\* The final loop of load_config, from setting number i on: setattr for each
\* honoured setting of config_data, in order.  strtobool's ValueError leaves
\* the loop with the earlier settings already assigned.
SetAttrs(slf, data, i) ==
    IF i > Len(honorred_settings) THEN [self |-> slf, exc |-> "", msg |-> ""]
    ELSE LET s == honorred_settings[i] IN
         IF s \notin DOMAIN data THEN SetAttrs(slf, data, i + 1)
         ELSE IF s # "verify_ssl"
         THEN SetAttrs([slf EXCEPT ![s] = data[s]], data, i + 1)
         ELSE IF data[s].ty = "str"
         THEN LET b == strtobool(data[s].v) IN
              IF b.ok THEN SetAttrs([slf EXCEPT ![s] = b.val], data, i + 1)
              ELSE [self |-> slf, exc |-> "ValueError", msg |-> "invalid truth value"]
         ELSE SetAttrs([slf EXCEPT ![s] = Bool(Truthy(data[s]))], data, i + 1)

\* load_config, lines 126-177, on the text of file f: parse it and assign
\* the attributes slf.  The result holds the attributes afterwards and the
\* exception that left load_config ("" when it returned).
ReadConfig(slf, f) ==
    LET parsed == ParseConfig(f) IN
    IF parsed.err # ""
    THEN [self |-> slf, exc |-> "ConfigFileException",
          msg |-> "An unknown exception occured trying to ini load config file: "
                  \o parsed.err]
    ELSE SetAttrs(slf, parsed.data, 1)

\* load_config with the isfile test left out: a file that is not there reads
\* as an empty one.
load_config_unchecked(slf, config_path) ==
    IF ~isfile(config_path) THEN [self |-> slf, exc |-> "", msg |-> ""]
    ELSE IF ~access(config_path)
    THEN [self |-> slf, exc |-> "ConfigFileException",
          msg |-> "The specified config file cannot be read"]
    ELSE ReadConfig(slf, fs[config_path])

\* load_config(config_path) run on the attributes slf.
load_config(slf, config_path) ==
    IF ~isfile(config_path)
    THEN [self |-> slf, exc |-> "ConfigFileException",
          msg |-> "The specified config file does not exist"]
    ELSE IF ~access(config_path)
    THEN [self |-> slf, exc |-> "ConfigFileException",
          msg |-> "The specified config file cannot be read"]
    ELSE ReadConfig(slf, fs[config_path])

\* ------------------------------------------------------------ inputs

DirNames == <<"a", "b", "c", "d", "e">>

\* The working directories considered: /, /a, /a/b, /a/b/c, ...
WorkDirs == {SubSeq(DirNames, 1, k) : k \in 0..MaxDepth}

Prefixes(d) == {SubSeq(d, 1, k) : k \in 0..Len(d)}

\* The explicit tower_config_file, when one is given.
ExplicitPath == <<"opt", "tower", "my_tower.yml">>

\* The implicit places of working directory d that a file may occupy: the
\* system and home files, d's own tower_cli.cfg, and .tower_cli.cfg in
\* every directory from / down to d.
ImplicitPaths(d) ==
    {SystemConfig, join(Home, dot_config_name), join(d, config_name)}
        \cup {join(p, dot_config_name) : p \in Prefixes(d)}

AllPaths(d) == ImplicitPaths(d) \cup {ExplicitPath}

YamlTower == Yaml([host |-> Str("tower.example.com"), verify_ssl |-> Bool(TRUE)])

YamlAdmin == Yaml([username |-> Str("admin"), password |-> Str("secret")])

IniGeneral ==
    Ini(<<Sect("general"), KV("host", "https://awx.example.com"),
          KV("username", "ini_user"), KV("verify_ssl", "YES")>>)

IniJunk == Ini(<<Sect("general"), Junk>>)

YamlMaybe ==
    Yaml([host |-> Str("https://awx.example.com"), verify_ssl |-> Str("maybe")])

\* File states of the implicit candidates in the discovery inputs.
DiscoveryPool ==
    {Directory, Special, Unreadable, YamlTower, IniGeneral, IniJunk, YamlMaybe}

\* File states of the system file in the override inputs.
SystemPool == {Missing, Special, Unreadable, YamlAdmin}

\* File states of the explicit tower_config_file in the override inputs.
ExplicitPool ==
    {Missing, Directory, Special, Unreadable,
     YamlTower, YamlAdmin, IniGeneral, IniJunk,
     Yaml([verify_ssl |-> Str("No"), oauth_token |-> Str("file_token")]),
     Yaml([verify_ssl |-> Int("0"), oauth_token |-> Str("file_token"),
           color |-> Bool(TRUE)]),
     YamlMaybe,
     Yaml([host |-> None, verify_ssl |-> None]),
     Ini(<<KV("host", "awx.example.com"), KV("username", "ini_user")>>),
     Ini(<<Blank, KV("host", "awx.example.com"), KV("verify_ssl", "no")>>),
     Ini(<<Sect("general"), KV("host", "awx.example.com"), KV("password", "ini_pw"),
           KV("verify_ssl", "maybe"), KV("oauth_token", "ini_token")>>),
     Ini(<<Junk, KV("host", "awx.example.com")>>),
     Ini(<<Sect("general"), KV("password", "p%ss")>>),
     Ini(<<Sect("general"), KV("color", "on")>>),
     Ini(<<>>)}

NoParams ==
    [tower_host |-> None, tower_username |-> None, tower_password |-> None,
     validate_certs |-> None, tower_oauthtoken |-> None, tower_config_file |-> <<>>]

\* The direct parameters of the override inputs.  validate_certs is a bool
\* or absent (argument type 'bool'); tower_config_file is <<>> when absent.
DirectParams ==
    [tower_host : {None, Str(""), Str("direct.example.com"),
                   Str("http://direct.example.com")},
     tower_username : {None, Str("override")},
     tower_password : {None, Str("direct_pw")},
     validate_certs : {None, Bool(TRUE), Bool(FALSE)},
     tower_oauthtoken : {None, Str("direct_token")},
     tower_config_file : {<<>>}]

\* The host names without scheme that occur in the inputs.
BareHosts ==
    {"127.0.0.1", "", "tower.example.com", "awx.example.com", "direct.example.com"}

\* re.match('^https{0,1}://', host) on the hosts of the inputs
HasScheme(h) == \E b \in BareHosts : h = "http://" \o b \/ h = "https://" \o b

\* ------------------------------------------------------------ initial states

\* Discovery inputs: any working directory, up to MaxFiles implicit files in
\* any places, and three settings of the explicit file and the parameters.
InitDiscovery ==
    /\ cwd \in WorkDirs
    /\ \E E \in SUBSET ImplicitPaths(cwd) :
         /\ Cardinality(E) <= MaxFiles
         /\ \E st \in [E -> DiscoveryPool] :
            \E x \in {Missing, YamlAdmin} :
              fs = [p \in AllPaths(cwd) |->
                      IF p \in E THEN st[p] ELSE IF p = ExplicitPath THEN x ELSE Missing]
    /\ \/ /\ params = NoParams
          /\ fs[ExplicitPath] = Missing
       \/ /\ params = [NoParams EXCEPT !.tower_config_file = <<ExplicitPath>>]
       \/ /\ params = [NoParams EXCEPT !.tower_config_file = <<ExplicitPath>>,
                                       !.tower_host = Str("direct.example.com"),
                                       !.validate_certs = Bool(FALSE)]
          /\ fs[ExplicitPath] = YamlAdmin

\* Override inputs: working directory /a, only the system file may exist,
\* every explicit file and every combination of direct parameters.
InitOverride ==
    /\ cwd = SubSeq(DirNames, 1, 1)
    /\ \E s \in SystemPool, x \in ExplicitPool :
         fs = [p \in AllPaths(cwd) |->
                 IF p = SystemConfig THEN s ELSE IF p = ExplicitPath THEN x ELSE Missing]
    /\ \E d \in DirectParams :
         \/ /\ params = d
            /\ fs[ExplicitPath] = Missing
         \/ params = [d EXCEPT !.tower_config_file = <<ExplicitPath>>]

Init ==
    /\ InitDiscovery \/ InitOverride
    /\ pc = "init"
    /\ config_files = <<>>
    /\ idx = 0
    /\ self = Defaults
    /\ events = <<>>
    /\ failure = [by |-> "", file |-> <<>>, msg |-> ""]

\* ------------------------------------------------------------ the constructor

Inputs == <<cwd, fs, params>>

Event(ev, path, names) == [ev |-> ev, path |-> path, names |-> names]

\* load_config_files, lines 85-90: the candidate list.
ListCandidates ==
    /\ pc = "init"
    /\ config_files' = BuildConfigFiles(cwd)
    /\ idx' = 1
    /\ pc' = "implicit"
    /\ UNCHANGED <<Inputs, self, events, failure>>

\* ImplicitOutcome with the ConfigFileException passed over instead of
\* handed to fail_json.
ImplicitOutcomeIgnoring(r, f) ==
    CASE r.exc \in {"", "ConfigFileException"} -> [pc |-> "implicit", failure |-> failure]
      [] OTHER -> [pc |-> "crashed", failure |-> [by |-> r.exc, file |-> <<>>, msg |-> r.msg]]

\* What the loop of load_config_files does with the outcome r of loading
\* candidate f: go on, or fail_json for a ConfigFileException; any other
\* exception leaves the constructor.
ImplicitOutcome(r, f) ==
    CASE r.exc = "" -> [pc |-> "implicit", failure |-> failure]
      [] r.exc = "ConfigFileException" ->
           [pc |-> "failed", failure |-> [by |-> "fail_json", file |-> f, msg |-> r.msg]]
      [] OTHER -> [pc |-> "crashed", failure |-> [by |-> r.exc, file |-> <<>>, msg |-> r.msg]]

\* load_config_files, lines 92-98: one turn of the loop.
LoadCandidate ==
    /\ pc = "implicit"
    /\ idx <= Len(config_files)
    /\ LET f == config_files[idx] IN
       IF exists(f) /\ ~isdir(f)
       THEN LET r == load_config(self, f)
                o == ImplicitOutcome(r, f)
            IN  /\ self' = r.self
                /\ events' = Append(events, Event("load", f, <<>>))
                /\ pc' = o.pc
                /\ failure' = o.failure
       ELSE UNCHANGED <<self, events, pc, failure>>
    /\ idx' = idx + 1
    /\ UNCHANGED <<Inputs, config_files>>

DirectFields ==
    <<"tower_host", "tower_username", "tower_password", "validate_certs", "tower_oauthtoken">>

RECURSIVE Duplicated(_, _)
\* lines 102-105: the direct fields, from number i on, that are truthy.
Duplicated(p, i) ==
    IF i > Len(DirectFields) THEN <<>>
    ELSE (IF Truthy(p[DirectFields[i]]) THEN <<DirectFields[i]>> ELSE <<>>)
             \o Duplicated(p, i + 1)

\* lines 114-116: fail_json(msg=cfe) for a ConfigFileException.
ExplicitOutcome(r) ==
    CASE r.exc = "" -> [pc |-> "direct", failure |-> failure]
      [] r.exc = "ConfigFileException" ->
           [pc |-> "failed", failure |-> [by |-> "fail_json", file |-> <<>>, msg |-> r.msg]]
      [] OTHER -> [pc |-> "crashed", failure |-> [by |-> r.exc, file |-> <<>>, msg |-> r.msg]]

\* load_config_files, lines 100-116: the explicit tower_config_file.
LoadExplicit ==
    /\ pc = "implicit"
    /\ idx > Len(config_files)
    /\ IF params.tower_config_file # <<>>
       THEN LET f == params.tower_config_file[1]
                dup == Duplicated(params, 1)
                warned == IF dup # <<>> THEN <<Event("warn", <<>>, dup)>> ELSE <<>>
                r == load_config(self, f)
                o == ExplicitOutcome(r)
            IN  /\ self' = r.self
                /\ events' = events \o warned \o <<Event("load", f, <<>>)>>
                /\ pc' = o.pc
                /\ failure' = o.failure
       ELSE /\ pc' = "direct"
            /\ UNCHANGED <<self, events, failure>>
    /\ UNCHANGED <<Inputs, config_files, idx>>

\* DirectOverrides with validate_certs tested for truth like the other four,
\* so that an explicit False is passed over.
DirectOverridesTruthy(slf, p) ==
    [host |-> IF Truthy(p.tower_host) THEN p.tower_host ELSE slf.host,
     username |-> IF Truthy(p.tower_username) THEN p.tower_username ELSE slf.username,
     password |-> IF Truthy(p.tower_password) THEN p.tower_password ELSE slf.password,
     verify_ssl |-> IF Truthy(p.validate_certs) THEN p.validate_certs ELSE slf.verify_ssl,
     oauth_token |-> IF Truthy(p.tower_oauthtoken) THEN p.tower_oauthtoken
                     ELSE slf.oauth_token]

\* __init__, lines 55-64: the attributes after the direct parameters.
DirectOverrides(slf, p) ==
    [host |-> IF Truthy(p.tower_host) THEN p.tower_host ELSE slf.host,
     username |-> IF Truthy(p.tower_username) THEN p.tower_username ELSE slf.username,
     password |-> IF Truthy(p.tower_password) THEN p.tower_password ELSE slf.password,
     verify_ssl |-> IF p.validate_certs # None THEN p.validate_certs ELSE slf.verify_ssl,
     oauth_token |-> IF Truthy(p.tower_oauthtoken) THEN p.tower_oauthtoken
                     ELSE slf.oauth_token]

ApplyDirectParams ==
    /\ pc = "direct"
    /\ self' = DirectOverrides(self, params)
    /\ pc' = "validate"
    /\ UNCHANGED <<Inputs, config_files, idx, events, failure>>

\* lines 67-68: a host without http:// or https:// gets https://.
NormalizeHost(h) == IF HasScheme(h.v) THEN h ELSE Str("https://" \o h.v)

\* __init__, lines 66-81.  re.match raises TypeError on a host that is not a
\* string; whether gethostbyname resolves the name is the resolver's answer.
ValidateHost ==
    /\ pc = "validate"
    /\ IF self.host.ty # "str"
       THEN /\ pc' = "crashed"
            /\ failure' = [by |-> "TypeError", file |-> <<>>, msg |-> "expected string"]
            /\ UNCHANGED self
       ELSE /\ self' = [self EXCEPT !.host = NormalizeHost(self.host)]
            /\ \E resolves \in BOOLEAN :
                 IF resolves
                 THEN pc' = "done" /\ UNCHANGED failure
                 ELSE /\ pc' = "failed"
                      /\ failure' = [by |-> "fail_json", file |-> <<>>,
                                     msg |-> "Unable to resolve tower_host"]
    /\ UNCHANGED <<Inputs, config_files, idx, events>>

Next ==
    \/ ListCandidates
    \/ LoadCandidate
    \/ LoadExplicit
    \/ ApplyDirectParams
    \/ ValidateHost

Spec == Init /\ [][Next]_vars

\* ------------------------------------------------------------ what a step loads

\* The file the next step hands to load_config: <<path>>, or <<>> when the
\* next step loads none.
Loading ==
    IF pc # "implicit" THEN <<>>
    ELSE IF idx <= Len(config_files)
    THEN (IF exists(config_files[idx]) /\ ~isdir(config_files[idx])
          THEN <<config_files[idx]>> ELSE <<>>)
    ELSE params.tower_config_file

\* The loop over the implicit candidates has ended without a failure.
ImplicitLoaded == pc = "implicit" /\ idx > Len(config_files)

\* .tower_cli.cfg of every directory from the outermost one down to d itself.
AncestorsOf(d) == [k \in 1..Len(d) |-> join(SubSeq(d, 1, k), dot_config_name)]

\* The order of the implicit files as the specification gives it.
StatedOrder(d) ==
    <<SystemConfig, join(Home, dot_config_name)>> \o AncestorsOf(d)
        \o <<join(d, config_name)>>

RECURSIVE LoadInOrder(_, _, _)
\* The attributes after loading the existing files of `order`, from number i
\* on, one after the other.
LoadInOrder(order, i, slf) ==
    IF i > Len(order) THEN [self |-> slf, exc |-> ""]
    ELSE IF exists(order[i]) /\ ~isdir(order[i])
    THEN LET r == load_config(slf, order[i]) IN
         IF r.exc # "" THEN [self |-> r.self, exc |-> r.exc]
         ELSE LoadInOrder(order, i + 1, r.self)
    ELSE LoadInOrder(order, i + 1, slf)

\* ------------------------------------------------------------ claims

\* C1: the implicit files are applied in the order system file, home file,
\* .tower_cli.cfg of each directory from the outermost down to the working
\* directory itself, then the working directory's tower_cli.cfg: once the
\* implicit files are loaded, every field holds what loading the existing
\* files in that order leaves in it (the later file wins).
C1_StatedOrderApplied ==
    ImplicitLoaded =>
        LET want == LoadInOrder(StatedOrder(cwd), 1, Defaults) IN
        want.exc = "" => self = want.self

\* C2: the dotted ancestor candidates are exactly one .tower_cli.cfg per
\* directory from the working directory itself up to, not including, the
\* root, outermost first (/a, /a/b, /a/b/c for working directory /a/b/c).
C2_AncestorCandidates ==
    pc # "init" =>
        SubSeq(config_files, 3, Len(config_files) - 1) = AncestorsOf(cwd)

\* The direct parameters that are supplied, in the order of the warning:
\* a string that is not empty, and validate_certs whenever it is not None.
RECURSIVE Supplied(_, _)
Supplied(p, i) ==
    IF i > Len(DirectFields) THEN <<>>
    ELSE LET n == DirectFields[i]
             here == IF n = "validate_certs" THEN p[n] # None ELSE Truthy(p[n])
         IN  (IF here THEN <<n>> ELSE <<>>) \o Supplied(p, i + 1)

\* The direct parameter behind each attribute.
ParamOf(s) ==
    CASE s = "host" -> "tower_host"
      [] s = "username" -> "tower_username"
      [] s = "password" -> "tower_password"
      [] s = "verify_ssl" -> "validate_certs"
      [] OTHER -> "tower_oauthtoken"

\* The attributes the direct parameters p supply.
SuppliedSettings(p) ==
    {s \in Settings : \E i \in 1..Len(Supplied(p, 1)) : Supplied(p, 1)[i] = ParamOf(s)}

\* The honoured settings file f holds, when it can be read at all.
FileSettings(f) ==
    IF f.kind = "file" /\ f.readable /\ ParseConfig(f).err = ""
    THEN DOMAIN ParseConfig(f).data \cap Settings
    ELSE {}

\* The explicit file, when one is given: <<path>> or <<>>.
Explicit == params.tower_config_file

\* The constructor has come past the direct parameters.
Overridden == pc \in {"validate", "done"}

\* C3 as stated: at the end of a resolution that completes, every supplied
\* direct parameter is the value of its attribute, tower_host included.
C3_DirectParamIsFinalValue ==
    pc = "done" =>
        \A s \in SuppliedSettings(params) : self[s] = params[ParamOf(s)]

\* C3, amended: the direct parameters are applied after every file.  Once
\* they are applied each supplied one is the value of its attribute; an
\* explicit validate_certs=False beats a file's true.  At the end the host is
\* tower_host when that starts with http:// or https://, and otherwise
\* tower_host with https:// in front.
C3_DirectParamsWin ==
    /\ Overridden =>
         \A s \in SuppliedSettings(params) \ {"host"} : self[s] = params[ParamOf(s)]
    /\ (pc = "validate" /\ "host" \in SuppliedSettings(params)) =>
         self.host = params.tower_host
    /\ (pc = "done" /\ "host" \in SuppliedSettings(params)) =>
         self.host = IF HasScheme(params.tower_host.v) THEN params.tower_host
                     ELSE Str("https://" \o params.tower_host.v)

\* C3 witness: a completed resolution in which the explicit file set host and
\* verify_ssl=true, and tower_host and validate_certs=False were supplied.
C3_Witness ==
    /\ pc = "done"
    /\ Explicit # <<>>
    /\ fs[ExplicitPath] = YamlTower
    /\ params.validate_certs = Bool(FALSE)
    /\ params.tower_host = Str("direct.example.com")
    /\ self.verify_ssl = Bool(FALSE)
    /\ self.host = Str("https://direct.example.com")

\* C4: an explicit tower_config_file that does not exist always ends the
\* resolution in fail_json, and never lets it complete; an implicit candidate
\* that does not exist or is a directory never fails it and leaves every
\* attribute, and everything else but the loop index, as it was.
C4_MissingExplicitFailsMissingImplicitSkips ==
    /\ []((Explicit # <<>> /\ ~exists(ExplicitPath))
            => pc \notin {"direct", "validate", "done"})
    /\ [][/\ (ImplicitLoaded /\ Explicit # <<>> /\ ~exists(Explicit[1]))
               => /\ pc' = "failed"
                  /\ failure'.by = "fail_json"
                  /\ failure'.msg = "The specified config file does not exist"
                  /\ self' = self
          /\ (/\ pc = "implicit"
              /\ idx <= Len(config_files)
              /\ ~exists(config_files[idx]) \/ isdir(config_files[idx]))
               => /\ pc' = "implicit"
                  /\ idx' = idx + 1
                  /\ UNCHANGED <<self, events, failure>>]_vars

\* C4 witness: a directory and a missing file were passed over among the
\* implicit candidates, and the missing explicit file then failed.
C4_Witness ==
    /\ pc = "failed"
    /\ failure.by = "fail_json"
    /\ failure.msg = "The specified config file does not exist"
    /\ Explicit # <<>>
    /\ ~exists(ExplicitPath)
    /\ \E i, j \in 1..Len(config_files) :
         isdir(config_files[i]) /\ ~exists(config_files[j])
    /\ self = Defaults

\* The same INI text with a "[general]" line in front of it.
WithGeneralLine(f) == Ini(<<Sect("general")>> \o f.lines)

\* C5: loading an INI text without a "[general]" marker succeeds and leaves
\* all five attributes as loading the same text with a "[general]" line in
\* front of it would.
C5_HeaderlessAsWithHeader ==
    [][(/\ Loading # <<>>
        /\ isfile(Loading[1]) /\ access(Loading[1])
        /\ fs[Loading[1]].fmt = "ini"
        /\ ~HasGeneralMarker(fs[Loading[1]].lines))
         => /\ pc' \notin {"failed", "crashed"}
            /\ self' = ReadConfig(self, WithGeneralLine(fs[Loading[1]])).self]_vars

\* C6: at the end of every resolution that completes verify_ssl is a bool.
C6_VerifySslIsBool == pc = "done" => self.verify_ssl.ty = "bool"

\* The warnings given so far.
Warnings == SelectSeq(events, LAMBDA e : e.ev = "warn")

\* C7: a warning is given exactly when an explicit file and at least one
\* direct parameter are supplied, validate_certs=False counting as supplied;
\* it names exactly the supplied parameters, comes right before the explicit
\* file is loaded, and does not fail the resolution.
C7_WarningIffDuplicated ==
    pc \in {"direct", "validate", "done"} =>
        IF Explicit # <<>> /\ Supplied(params, 1) # <<>>
        THEN /\ Len(events) >= 2
             /\ events[Len(events) - 1] = Event("warn", <<>>, Supplied(params, 1))
             /\ events[Len(events)] = Event("load", Explicit[1], <<>>)
             /\ Len(Warnings) = 1
        ELSE Warnings = <<>>

\* C8: a file is never applied in part: a load either completes with every
\* honoured setting of the file assigned, or fails with no attribute changed.
C8_NoPartialApplication ==
    [][Loading # <<>> =>
         \/ /\ pc' \notin {"failed", "crashed"}
            /\ \A s \in FileSettings(fs[Loading[1]]) \ {"verify_ssl"} :
                 self'[s] = ParseConfig(fs[Loading[1]]).data[s]
         \/ /\ pc' \in {"failed", "crashed"}
            /\ self' = self]_vars

\* A honoured setting that no file and no direct parameter holds.
InNoSource(s) ==
    /\ \A p \in DOMAIN fs : s \notin FileSettings(fs[p])
    /\ s \notin SuppliedSettings(params)

Unloadable(f) ==
    /\ f.kind \notin {"missing", "dir"}
    /\ f.kind # "file" \/ ~f.readable \/ ParseConfig(f).err # ""

\* C10: an implicit candidate that exists, is no directory and cannot be
\* loaded fails the resolution there, with a message naming it: no attribute
\* changes, and nothing is loaded or applied afterwards.
C10_UnloadableCandidateFails ==
    /\ [][/\ (/\ pc = "implicit"
              /\ idx <= Len(config_files)
              /\ Unloadable(fs[config_files[idx]]))
               => /\ pc' = "failed"
                  /\ failure' = [by |-> "fail_json", file |-> config_files[idx],
                                 msg |-> load_config(self, config_files[idx]).msg]
                  /\ self' = self
          /\ pc = "failed" => UNCHANGED vars]_vars
    /\ []((pc = "failed" /\ failure.file # <<>>)
            => /\ events[Len(events)] = Event("load", failure.file, <<>>)
               /\ failure.file = config_files[idx - 1]
               /\ Warnings = <<>>)

\* C10 witness: a malformed candidate failed the resolution while a later
\* candidate, an explicit file and direct parameters were still to come, and
\* none of them reached the attributes.
C10_Witness ==
    /\ pc = "failed"
    /\ failure.by = "fail_json"
    /\ failure.file = config_files[idx - 1]
    /\ fs[failure.file] = IniJunk
    /\ \E j \in idx..Len(config_files) : fs[config_files[j]] = YamlTower
    /\ Explicit # <<>>
    /\ fs[ExplicitPath] = YamlAdmin
    /\ params.tower_host = Str("direct.example.com")
    /\ self = Defaults

====
